---------------------------- MODULE Spec2Model ----------------------------
(***************************************************************************)
(* Model of src/main.py: the TF-Luna style range sensor driver             *)
(* (LidarSensor) and the camera / lidar / detector fusion application      *)
(* (CameraApp).                                                            *)
(*                                                                         *)
(* Four specifications share the variables:                                *)
(*   SpecParser  the serial byte stream and LidarSensor.read_available,    *)
(*               explored at byte level with arbitrary chunking;           *)
(*   SpecDriver  the port handle: connect, disconnect, read_available;     *)
(*   Spec        the application: the Tk main thread (start, the           *)
(*               update_gui tick, flash_warning timers, apply_settings,    *)
(*               on_closing) and the two producer threads;                 *)
(*   SpecLive    Spec with the threads and the rest of on_closing          *)
(*               scheduled fairly.                                         *)
(*                                                                         *)
(* Abstractions: widget texts and images are write-only presentation state *)
(* and are left out; the colour of warning_label is kept because           *)
(* flash_warning reads it back.                                            *)
(***************************************************************************)
EXTENDS Integers, Sequences, FiniteSets, TLC

VARIABLES
    \* ---- LidarSensor
    serial,           \* self.serial: "none" (None) | "open" | "closed"
    buffer,           \* self.buffer, a sequence of bytes
    calls,            \* log of the LidarSensor calls made in SpecDriver
    \* ---- the serial line (environment) and its bookkeeping
    wire,             \* bytes the device has sent that no read has returned yet
    readings,         \* concatenation of everything read_available returned
    expected,         \* distances of the valid packets the device has sent
    garbage,          \* number of garbage bytes the device has sent
    sawSyncGarbage,   \* TRUE once a garbage byte equal to 0x59 was sent
    received,         \* concatenation of the chunks the serial reads returned
    splitDecoded,     \* TRUE once a packet split over two reads was decoded
    \* ---- CameraApp fields
    running,          \* self.running
    lock,             \* holder of self.lock: "free" | "gui" | "cam" | "lid"
    camera,           \* self.camera: "configured" | "started" | "stopped"
    latest_frame,     \* self.latest_frame: NoFrame or a frame id
    latest_distance,  \* self.latest_distance
    min_distance,     \* self.min_distance
    max_distance,     \* self.max_distance
    warning_text,     \* self.warning_text, a sequence of text fragments
    label_fg,         \* warning_label's "fg" option
    \* ---- Tk main thread
    guiPc,            \* position of the main thread
    tick,             \* locals and outcome of the update_gui call in progress
    tickPending,      \* number of pending root.after(33, update_gui) callbacks
    flashFresh,       \* pending flash_warning callbacks scheduled under the current alert
    flashStale,       \* pending flash_warning callbacks of an alert cleared since
    restores,         \* pending show_temp_message restore callbacks, by captured colour
    \* ---- producer threads
    camPc,            \* position of camera_loop
    camFrame,         \* camera_loop's local frame
    lidPc,            \* position of lidar_loop
    lidDistances,     \* lidar_loop's local distances
    lastDecoded,      \* the last reading read_available has returned to lidar_loop
    readFailed        \* the read_available call of this lidar_loop iteration failed

lidarVars == <<serial, buffer>>
lineVars == <<wire, readings, expected, garbage, sawSyncGarbage, received,
              splitDecoded, calls>>
appVars == <<running, lock, camera, latest_frame, latest_distance, min_distance,
             max_distance, warning_text, label_fg>>
guiVars == <<guiPc, tick, tickPending, flashFresh, flashStale, restores>>
threadVars == <<camPc, camFrame, lidPc, lidDistances, lastDecoded, readFailed>>
vars == <<lidarVars, lineVars, appVars, guiVars, threadVars>>

\* ------------------------------------------------------------------ bounds
\* Most packets plus garbage bytes the device sends in SpecParser.
MaxItems == 4

\* ------------------------------------------------------- program constants
PacketLen == 9
SYNC == 89

WARNING_COLOR == "#FF5722"
ALERT_COLOR == "#FFEB3B"
ACCENT_COLOR == "#4CAF50"

\* ----------------------------------------------------------------- helpers
Last(s) == s[Len(s)]

Range(s) == {s[i] : i \in 1..Len(s)}

\* ------------------------------------------------------------ LidarSensor

\* A packet as the device frames it: two sync bytes, the distance little
\* endian, five further bytes (strength, reserved, checksum), here all t.
Packet(d, t) == <<SYNC, SYNC, d % 256, d \div 256, t, t, t, t, t>>

\* Mutant of ParseLoop: a recognised packet is consumed but its distance is
\* decoded big endian.
RECURSIVE ParseLoopBigEndian(_, _)
ParseLoopBigEndian(buf, distances) ==
    IF Len(buf) >= PacketLen
    THEN IF buf[1] = SYNC /\ buf[2] = SYNC
         THEN ParseLoopBigEndian(SubSeq(buf, PacketLen + 1, Len(buf)),
                                 Append(distances, buf[3] * 256 + buf[4]))
         ELSE ParseLoopBigEndian(Tail(buf), distances)
    ELSE [buffer |-> buf, distances |-> distances]

\* Mutant of ParseLoop: a mismatch discards two leading bytes.
RECURSIVE ParseLoopDropTwo(_, _)
ParseLoopDropTwo(buf, distances) ==
    IF Len(buf) >= PacketLen
    THEN IF buf[1] = SYNC /\ buf[2] = SYNC
         THEN ParseLoopDropTwo(SubSeq(buf, PacketLen + 1, Len(buf)),
                               Append(distances, buf[3] + buf[4] * 256))
         ELSE ParseLoopDropTwo(Tail(Tail(buf)), distances)
    ELSE [buffer |-> buf, distances |-> distances]

\* Mutant of ParseLoop: the loop runs only while more than nine bytes are
\* buffered.
RECURSIVE ParseLoopOffByOne(_, _)
ParseLoopOffByOne(buf, distances) ==
    IF Len(buf) > PacketLen
    THEN IF buf[1] = SYNC /\ buf[2] = SYNC
         THEN ParseLoopOffByOne(SubSeq(buf, PacketLen + 1, Len(buf)),
                                Append(distances, buf[3] + buf[4] * 256))
         ELSE ParseLoopOffByOne(Tail(buf), distances)
    ELSE [buffer |-> buf, distances |-> distances]

\* The while loop of read_available.
RECURSIVE ParseLoop(_, _)
ParseLoop(buf, distances) ==
    IF Len(buf) >= PacketLen
    THEN IF buf[1] = SYNC /\ buf[2] = SYNC
         THEN ParseLoop(SubSeq(buf, PacketLen + 1, Len(buf)),
                        Append(distances, buf[3] + buf[4] * 256))
         ELSE ParseLoop(Tail(buf), distances)
    ELSE [buffer |-> buf, distances |-> distances]

\* Outcomes of self.serial.read(...): the bytes read (possibly none, on a
\* timeout), or an exception.
ReadOk(data) == [err |-> FALSE, data |-> data]
ReadError == [err |-> TRUE, data |-> <<>>]

\* Mutant of disconnect: close() is called on whatever self.serial is.
disconnect_always_close(ser) ==
    IF ser = "none"
    THEN [serial |-> ser, closed |-> FALSE, raised |-> TRUE]
    ELSE [serial |-> "closed", closed |-> TRUE, raised |-> FALSE]

\* disconnect on a handle in state ser: the handle afterwards, whether
\* self.serial.close() was called, and whether the call raised.
disconnect(ser) ==
    IF ser = "open"
    THEN [serial |-> "closed", closed |-> TRUE, raised |-> FALSE]
    ELSE [serial |-> ser, closed |-> FALSE, raised |-> FALSE]

\* Mutant of read_available: the bytes left over by the previous call are
\* forgotten, only the new data is parsed.
read_available_no_carry(ser, buf, rd) ==
    IF ser # "open"
    THEN [buffer |-> buf, distances |-> <<>>]
    ELSE IF rd.err
         THEN [buffer |-> buf, distances |-> <<>>]
         ELSE IF rd.data # <<>>
              THEN ParseLoop(rd.data, <<>>)
              ELSE [buffer |-> buf, distances |-> <<>>]

\* read_available: the new buffer and the returned list.
read_available(ser, buf, rd) ==
    IF ser # "open"
    THEN [buffer |-> buf, distances |-> <<>>]
    ELSE IF rd.err
         THEN [buffer |-> buf, distances |-> <<>>]
         ELSE IF rd.data # <<>>
              THEN ParseLoop(buf \o rd.data, <<>>)
              ELSE [buffer |-> buf, distances |-> <<>>]

\* ------------------------------------------------------ CameraApp helpers

\* The texts typed into the two Entry widgets (min_distance_var and
\* max_distance_var), as sequences of characters.
EntryTexts ==
    { <<"0">>, <<"1", "5", "0">>, <<"-", "1", "0">>, <<"a", "b", "c">> }

Digits == {"0", "1", "2", "3", "4", "5", "6", "7", "8", "9"}

DigitVal(c) ==
    CASE c = "0" -> 0 [] c = "1" -> 1 [] c = "2" -> 2 [] c = "3" -> 3
      [] c = "4" -> 4 [] c = "5" -> 5 [] c = "6" -> 6 [] c = "7" -> 7
      [] c = "8" -> 8 [] c = "9" -> 9

Unsigned(s) == IF s # <<>> /\ s[1] \in {"-", "+"} THEN Tail(s) ELSE s

\* int(text) does not raise ValueError: an optional sign and at least one digit.
IsIntText(s) == Unsigned(s) # <<>> /\ \A i \in 1..Len(Unsigned(s)) : Unsigned(s)[i] \in Digits

RECURSIVE DigitsValue(_)
DigitsValue(s) ==
    IF s = <<>> THEN 0
    ELSE DigitsValue(SubSeq(s, 1, Len(s) - 1)) * 10 + DigitVal(s[Len(s)])

\* int(text), for a text int() accepts.
IntOf(s) ==
    IF s[1] = "-" THEN 0 - DigitsValue(Unsigned(s)) ELSE DigitsValue(Unsigned(s))

\* ', '.join(labels), as a sequence of fragments.
RECURSIVE Join(_)
Join(labels) ==
    IF Len(labels) <= 1 THEN labels
    ELSE <<labels[1], ", ">> \o Join(Tail(labels))

\* The colour flash_warning switches to.
FlashColor(current) == IF current = ALERT_COLOR THEN WARNING_COLOR ELSE ALERT_COLOR

\* What run_yolo hands to the model: a file path or a frame.
DetectorInputFile(path) == [kind |-> "file", path |-> path, frame |-> 0]
DetectorInputFrame(f) == [kind |-> "frame", path |-> "", frame |-> f]
NoDetectorInput == [kind |-> "none", path |-> "", frame |-> 0]

\* ------------------------------------------------------------------- Init
NoFrame == 0
NoTick == [frame |-> NoFrame, distance |-> 0, gate |-> "none",
           detInput |-> NoDetectorInput, labels |-> <<>>, raised |-> FALSE]

\* Everything but the port handle and the parser buffer.
InitOther ==
    /\ calls = <<>>
    /\ wire = <<>>
    /\ readings = <<>>
    /\ expected = <<>>
    /\ garbage = 0
    /\ sawSyncGarbage = FALSE
    /\ received = <<>>
    /\ splitDecoded = FALSE
    /\ running = FALSE
    /\ lock = "free"
    /\ camera = "configured"
    /\ latest_frame = NoFrame
    /\ latest_distance = 0
    /\ min_distance = 50
    /\ max_distance = 200
    /\ warning_text = <<>>
    /\ label_fg = WARNING_COLOR
    /\ guiPc = "idle"
    /\ tick = NoTick
    /\ tickPending = 0
    /\ flashFresh = 0
    /\ flashStale = 0
    /\ restores = <<>>
    /\ camPc = "off"
    /\ camFrame = NoFrame
    /\ lidPc = "off"
    /\ lidDistances = <<>>
    /\ lastDecoded = 0
    /\ readFailed = FALSE

\* The state after CameraApp.__init__: LidarSensor() was constructed and
\* connect() has succeeded (a failed connect destroys the window instead).
Init ==
    /\ serial = "open"
    /\ buffer = <<>>
    /\ InitOther

\* The state after LidarSensor.__init__ alone.
InitDriver ==
    /\ serial = "none"
    /\ buffer = <<>>
    /\ InitOther

\* ------------------------------------------------- SpecParser: the stream
PacketDistances == {50, 22873}
TrailerBytes == {0, SYNC}
GarbageBytes == {16, SYNC}

\* The device frames one reading.
DeviceSendPacket(d, t) ==
    /\ Len(expected) + garbage < MaxItems
    /\ wire' = wire \o Packet(d, t)
    /\ expected' = Append(expected, d)
    /\ UNCHANGED <<readings, garbage, sawSyncGarbage, received, splitDecoded,
                   calls>>
    /\ UNCHANGED <<lidarVars, appVars, guiVars, threadVars>>

\* Line noise: one byte that belongs to no packet.
DeviceSendGarbage(b) ==
    /\ Len(expected) + garbage < MaxItems
    /\ wire' = Append(wire, b)
    /\ garbage' = garbage + 1
    /\ sawSyncGarbage' = (sawSyncGarbage \/ b = SYNC)
    /\ UNCHANGED <<readings, expected, received, splitDecoded, calls>>
    /\ UNCHANGED <<lidarVars, appVars, guiVars, threadVars>>

\* One read_available call that finds the first k pending bytes in_waiting.
\* A packet split over two reads is decoded by this call when the call
\* starts with buffered bytes and the first nine bytes of buffer plus chunk
\* begin with the two sync bytes.
PollRead(k) ==
    /\ k \in 1..Len(wire)
    /\ LET chunk == SubSeq(wire, 1, k)
           all == buffer \o chunk
           r == read_available(serial, buffer, ReadOk(chunk))
       IN  /\ buffer' = r.buffer
           /\ readings' = readings \o r.distances
           /\ received' = received \o chunk
           /\ splitDecoded' = (\/ splitDecoded
                               \/ /\ buffer # <<>>
                                  /\ Len(all) >= PacketLen
                                  /\ all[1] = SYNC
                                  /\ all[2] = SYNC)
    /\ wire' = SubSeq(wire, k + 1, Len(wire))
    /\ UNCHANGED <<serial, expected, garbage, sawSyncGarbage, calls>>
    /\ UNCHANGED <<appVars, guiVars, threadVars>>

NextParser ==
    \/ \E d \in PacketDistances, t \in TrailerBytes : DeviceSendPacket(d, t)
    \/ \E b \in GarbageBytes : DeviceSendGarbage(b)
    \/ \E k \in 1..(PacketLen * MaxItems) : PollRead(k)

SpecParser == Init /\ [][NextParser]_vars

\* ------------------------------------------------------------------- C1
\* C1 (as amended): when the garbage bytes between the valid packets contain
\* no 0x59 byte, then under any chunking the readings returned so far are a
\* prefix of the distances of the packets sent, and once every sent byte has
\* been read they are exactly those distances, in stream order.
IsPrefix(s, t) == Len(s) <= Len(t) /\ SubSeq(t, 1, Len(s)) = s

C1_ExactWithoutSyncGarbage ==
    ~sawSyncGarbage =>
        /\ IsPrefix(readings, expected)
        /\ (wire = <<>> => readings = expected)

C1_Witness ==
    /\ ~sawSyncGarbage
    /\ garbage >= 2
    /\ wire = <<>>
    /\ Len(expected) = 2
    /\ expected[1] # expected[2]
    /\ readings = expected
    /\ buffer # <<>>

\* C1 (as stated): for arbitrary garbage bytes, once every sent byte has been
\* read the readings are exactly the distances of the valid packets.
C1_ExactForArbitraryGarbage ==
    wire = <<>> => readings = expected

\* ------------------------------------------------------------------ C14
\* The bytes the parser has thrown away so far: everything read that is
\* neither part of a returned reading nor still buffered.
Discarded ==
    (PacketLen * Len(expected) + garbage)
        - Len(wire) - Len(buffer) - PacketLen * Len(readings)

\* The stream of the example: one garbage byte, then the packet for 50 cm.
ExampleStream == <<16, SYNC, SYNC, 50, 0, 10, 0, 0, 0, 0>>

\* C14: a scan that does not find two 0x59 bytes at the front throws away
\* one byte and no more, and records no reading for it: while the garbage
\* holds no 0x59 byte, the bytes thrown away never outnumber the garbage
\* bytes sent and no reading appears that was not sent, so the packets
\* around the garbage are still decoded; the example stream yields exactly
\* the one reading 50 and leaves nothing buffered.
C14_ResyncByOneByte ==
    /\ ParseLoop(ExampleStream, <<>>) = [buffer |-> <<>>, distances |-> <<50>>]
    /\ ~sawSyncGarbage =>
           /\ 0 <= Discarded
           /\ Discarded <= garbage
           /\ Len(readings) <= Len(expected)
           /\ (wire = <<>> /\ buffer = <<>>) =>
                  (Discarded = garbage /\ readings = expected)

\* One garbage byte other than 0x59, then the packet for 50 cm, all read:
\* the byte is gone, the packet is decoded, nothing is left.
C14_Witness ==
    /\ garbage = 1
    /\ ~sawSyncGarbage
    /\ expected = <<50>>
    /\ readings = <<50>>
    /\ wire = <<>>
    /\ buffer = <<>>

\* ------------------------------------------------------------------ C15
\* C15: whatever was sent and however it was split into reads, fewer than
\* nine bytes are buffered between read_available calls.
C15_BufferBelowPacketLen ==
    Len(buffer) < PacketLen

\* A corrupted stream (a 0x59 garbage byte has shifted the framing) has left
\* eight bytes buffered.
C15_Witness ==
    /\ Len(buffer) = PacketLen - 1
    /\ sawSyncGarbage
    /\ readings # <<>>
    /\ ~IsPrefix(readings, expected)

\* ------------------------------------------------------------------ C21
\* C21: however the bytes received so far were split into non-empty chunks,
\* the readings returned over the chunks and the bytes left in the buffer
\* are those of one read_available call that receives all of them at once
\* on an empty buffer; a call that ends with fewer than nine bytes in hand
\* returns nothing and keeps them all.
C21_ChunkingIndependent ==
    /\ [](LET whole == read_available("open", <<>>, ReadOk(received))
          IN  /\ readings = whole.distances
              /\ buffer = whole.buffer)
    /\ [][(/\ received' # received
           /\ Len(buffer) + Len(received') - Len(received) < PacketLen)
             => (/\ readings' = readings
                 /\ buffer' = buffer \o SubSeq(received', Len(received) + 1,
                                                Len(received')))]_vars

\* Two packets have come in at least three chunks, one of them split over
\* two reads, with line noise that contains a sync byte, and all of it has
\* been read.
C21_Witness ==
    /\ splitDecoded
    /\ sawSyncGarbage
    /\ wire = <<>>
    /\ Len(readings) = 2
    /\ Len(received) > 2 * PacketLen

\* --------------------------------------------- SpecDriver: the port handle
\* Most LidarSensor calls one run of SpecDriver makes.
MaxCalls == 4

\* What a serial read returns in SpecDriver.
DriverReads == {ReadError, ReadOk(<<16>>), ReadOk(Packet(50, 0))}

Call(op, closed, raised) == [op |-> op, closed |-> closed, raised |-> raised]

\* connect(): serial.Serial(...) returns a new open handle, or raises and
\* leaves self.serial as it was.
connect(ok) ==
    /\ Len(calls) < MaxCalls
    /\ serial' = IF ok THEN "open" ELSE serial
    /\ calls' = Append(calls, Call(IF ok THEN "connect" ELSE "connect failed",
                                   FALSE, FALSE))
    /\ UNCHANGED <<buffer, wire, readings, expected, garbage, sawSyncGarbage,
                   received, splitDecoded>>
    /\ UNCHANGED <<appVars, guiVars, threadVars>>

\* One disconnect() call.
DriverDisconnect ==
    /\ Len(calls) < MaxCalls
    /\ LET r == disconnect(serial)
       IN  /\ serial' = r.serial
           /\ calls' = Append(calls, Call("disconnect", r.closed, r.raised))
    /\ UNCHANGED <<buffer, wire, readings, expected, garbage, sawSyncGarbage,
                   received, splitDecoded>>
    /\ UNCHANGED <<appVars, guiVars, threadVars>>

\* One read_available() call whose serial read ends as rd.
DriverRead(rd) ==
    /\ Len(calls) < MaxCalls
    /\ LET r == read_available(serial, buffer, rd)
       IN  /\ buffer' = r.buffer
           /\ readings' = readings \o r.distances
    /\ calls' = Append(calls, Call("read_available", FALSE, FALSE))
    /\ UNCHANGED <<serial, wire, expected, garbage, sawSyncGarbage, received,
                   splitDecoded>>
    /\ UNCHANGED <<appVars, guiVars, threadVars>>

NextDriver ==
    \/ \E ok \in BOOLEAN : connect(ok)
    \/ DriverDisconnect
    \/ \E rd \in DriverReads : DriverRead(rd)

SpecDriver == InitDriver /\ [][NextDriver]_vars

\* ------------------------------------------------------------------ C13
\* C13: a disconnect call raises no error in any state of the handle (never
\* connected, connected, already disconnected), and a disconnect call that
\* directly follows a disconnect call does not call close() again and leaves
\* the handle and the buffer exactly as the first call left them.
C13_DisconnectIdempotent ==
    /\ [](\A i \in 1..Len(calls) : ~calls[i].raised)
    /\ [][(/\ calls # <<>>
           /\ Len(calls') = Len(calls) + 1
           /\ Last(calls).op = "disconnect"
           /\ Last(calls').op = "disconnect")
             => (/\ ~Last(calls').closed
                 /\ UNCHANGED <<serial, buffer>>)]_vars

\* connect, disconnect (which closed the port), disconnect again.
C13_Witness ==
    /\ Len(calls) = 3
    /\ calls[1].op = "connect"
    /\ calls[2] = Call("disconnect", TRUE, FALSE)
    /\ calls[3] = Call("disconnect", FALSE, FALSE)
    /\ serial = "closed"


\* ===================================================== Spec: the application
\* Bounds of the application model.
MaxFlashTimers == 2
MaxRestores == 1

\* Frames the camera delivers.
FrameIds == {1, 2}

\* A packet that arrives split over two reads: its first four bytes, then
\* the other five.
PacketHead(d) == SubSeq(Packet(d, 0), 1, 4)
PacketTail(d) == SubSeq(Packet(d, 0), 5, PacketLen)

\* What one serial read returns in Spec: an error, nothing (timeout), two
\* packets at once (250 cm, then 150 cm), or one half of a 250 cm packet.
PollOutcomes ==
    {ReadError, ReadOk(<<>>)}
        \cup {ReadOk(Packet(250, 0) \o Packet(150, 0))}
        \cup {ReadOk(PacketHead(250)), ReadOk(PacketTail(250))}

\* The sensor sends whole packets, so the read after the first half of a
\* packet brings its second half, and no second half comes without a first.
WellFramed(buf, rd) ==
    \/ rd.err
    \/ rd.data = <<>>
    \/ buf = <<>> /\ rd.data # PacketTail(250)
    \/ buf = PacketHead(250) /\ rd.data = PacketTail(250)

\* What the detector call of one tick does: raise, or return labels.
LabelLists == {<<>>, <<"person", "car">>}
DetectorOutcomes ==
    {[raised |-> TRUE, labels |-> <<>>]}
        \cup {[raised |-> FALSE, labels |-> l] : l \in LabelLists}

\* ------------------------------------------------------------ apply_settings
\* Mutant of apply_settings: the min < max check is missing.
apply_settings_unordered(minText, maxText) ==
    /\ guiPc = "idle"
    /\ Len(restores) < MaxRestores
    /\ IF ~(IsIntText(minText) /\ IsIntText(maxText))
       THEN UNCHANGED <<min_distance, max_distance, label_fg, restores>>
       ELSE LET min_val == IntOf(minText)
                max_val == IntOf(maxText)
            IN  IF min_val < 0 \/ max_val < 0
                THEN UNCHANGED <<min_distance, max_distance, label_fg, restores>>
                ELSE /\ min_distance' = min_val
                     /\ max_distance' = max_val
                     /\ label_fg' = ACCENT_COLOR
                     /\ restores' = Append(restores, label_fg)
    /\ UNCHANGED <<running, lock, camera, latest_frame, latest_distance,
                   warning_text>>
    /\ UNCHANGED <<guiPc, tick, tickPending, flashFresh, flashStale>>
    /\ UNCHANGED <<lidarVars, lineVars, threadVars>>

\* Mutant of apply_settings: min_distance is assigned before the min < max
\* check, so a rejected pair leaves a partial update behind.
apply_settings_partial(minText, maxText) ==
    /\ guiPc = "idle"
    /\ Len(restores) < MaxRestores
    /\ IF ~(IsIntText(minText) /\ IsIntText(maxText))
       THEN UNCHANGED <<min_distance, max_distance, label_fg, restores>>
       ELSE LET min_val == IntOf(minText)
                max_val == IntOf(maxText)
            IN  IF min_val < 0 \/ max_val < 0
                THEN UNCHANGED <<min_distance, max_distance, label_fg, restores>>
                ELSE IF min_val >= max_val
                     THEN /\ min_distance' = min_val
                          /\ UNCHANGED <<max_distance, label_fg, restores>>
                     ELSE /\ min_distance' = min_val
                          /\ max_distance' = max_val
                          /\ label_fg' = ACCENT_COLOR
                          /\ restores' = Append(restores, label_fg)
    /\ UNCHANGED <<running, lock, camera, latest_frame, latest_distance,
                   warning_text>>
    /\ UNCHANGED <<guiPc, tick, tickPending, flashFresh, flashStale>>
    /\ UNCHANGED <<lidarVars, lineVars, threadVars>>

\* apply_settings with the two entry texts; an accepted pair ends in
\* show_temp_message, which recolours the label and schedules restore().
apply_settings(minText, maxText) ==
    /\ guiPc = "idle"
    /\ Len(restores) < MaxRestores
    /\ IF ~(IsIntText(minText) /\ IsIntText(maxText))
       THEN UNCHANGED <<min_distance, max_distance, label_fg, restores>>
       ELSE LET min_val == IntOf(minText)
                max_val == IntOf(maxText)
            IN  IF min_val < 0 \/ max_val < 0
                THEN UNCHANGED <<min_distance, max_distance, label_fg, restores>>
                ELSE IF min_val >= max_val
                     THEN UNCHANGED <<min_distance, max_distance, label_fg, restores>>
                     ELSE /\ min_distance' = min_val
                          /\ max_distance' = max_val
                          /\ label_fg' = ACCENT_COLOR
                          /\ restores' = Append(restores, label_fg)
    /\ UNCHANGED <<running, lock, camera, latest_frame, latest_distance,
                   warning_text>>
    /\ UNCHANGED <<guiPc, tick, tickPending, flashFresh, flashStale>>
    /\ UNCHANGED <<lidarVars, lineVars, threadVars>>

\* The restore() callback of show_temp_message; callbacks of equal delay fire
\* in the order they were scheduled.
restore ==
    /\ guiPc = "idle"
    /\ restores # <<>>
    /\ label_fg' = Head(restores)
    /\ restores' = Tail(restores)
    /\ UNCHANGED <<running, lock, camera, latest_frame, latest_distance,
                   min_distance, max_distance, warning_text>>
    /\ UNCHANGED <<guiPc, tick, tickPending, flashFresh, flashStale>>
    /\ UNCHANGED <<lidarVars, lineVars, threadVars>>

\* ----------------------------------------------------------------- update_gui
\* update_gui up to the first statement under "with self.lock": the early
\* return when not running, else the lock is acquired (the call waits while a
\* producer holds it) and the frame is copied.
update_gui_enter ==
    IF ~running'
    THEN /\ guiPc' = "idle"
         /\ UNCHANGED <<lock, tick>>
    ELSE /\ lock = "free"
         /\ lock' = "gui"
         /\ tick' = [NoTick EXCEPT !.frame = latest_frame]
         /\ guiPc' = "snapshot"

\* --------------------------------------------------------------------- start
\* Mutant of start: the "if not self.running" test is missing.
start_unguarded ==
    /\ guiPc = "idle"
    /\ running' = TRUE
    /\ camera' = "started"
    /\ camPc' = "loop"
    /\ lidPc' = "loop"
    /\ update_gui_enter
    /\ UNCHANGED <<latest_frame, latest_distance, min_distance,
                   max_distance, warning_text, label_fg>>
    /\ UNCHANGED <<tickPending, flashFresh, flashStale, restores>>
    /\ UNCHANGED <<camFrame, lidDistances, lastDecoded, readFailed>>
    /\ UNCHANGED <<lidarVars, lineVars>>

\* start(): when not running yet it sets running, starts the camera and both
\* threads and calls update_gui.
start ==
    /\ guiPc = "idle"
    /\ IF ~running
       THEN /\ running' = TRUE
            /\ camera' = "started"
            /\ camPc' = "loop"
            /\ lidPc' = "loop"
            /\ update_gui_enter
       ELSE UNCHANGED <<running, camera, camPc, lidPc, guiPc, lock, tick>>
    /\ UNCHANGED <<latest_frame, latest_distance, min_distance,
                   max_distance, warning_text, label_fg>>
    /\ UNCHANGED <<tickPending, flashFresh, flashStale, restores>>
    /\ UNCHANGED <<camFrame, lidDistances, lastDecoded, readFailed>>
    /\ UNCHANGED <<lidarVars, lineVars>>

\* A root.after(33, update_gui) callback fires.
update_gui_timer ==
    /\ guiPc = "idle"
    /\ tickPending > 0
    /\ tickPending' = tickPending - 1
    /\ UNCHANGED running
    /\ update_gui_enter
    /\ UNCHANGED <<camera, latest_frame, latest_distance, min_distance,
                   max_distance, warning_text, label_fg>>
    /\ UNCHANGED <<flashFresh, flashStale, restores>>
    /\ UNCHANGED <<lidarVars, lineVars, threadVars>>

\* Mutant of ClearAlert: only the label would be blanked, warning_text kept.
ClearLabelOnly ==
    UNCHANGED <<warning_text, flashStale, flashFresh, label_fg>>

\* self.warning_text = "" (and the label blanked).  Clearing ends the current
\* alert: the flash callbacks still pending were scheduled under it.
ClearAlert ==
    /\ warning_text' = <<>>
    /\ flashStale' = flashStale + flashFresh
    /\ flashFresh' = 0
    /\ UNCHANGED label_fg

\* Mutant of WarningMessage: a fixed text that names no label.
WarningMessageGeneric(labels) == <<"DIKKAT: ", "nesne", " tespit edildi!">>

\* f"DIKKAT: {', '.join(detected_objects)} tespit edildi!"
WarningMessage(labels) == <<"DIKKAT: ">> \o Join(labels) \o <<" tespit edildi!">>

\* run_yolo from "if detected_objects:" on, for a detector call that returned
\* labels.  A non-empty list sets warning_text and calls flash_warning, which
\* (running and warning_text being set) recolours the label and schedules
\* itself.
run_yolo(labels) ==
    IF labels # <<>>
    THEN /\ warning_text' = WarningMessage(labels)
         /\ IF running /\ warning_text' # <<>>
            THEN /\ flashFresh + flashStale < MaxFlashTimers
                 /\ label_fg' = FlashColor(label_fg)
                 /\ flashFresh' = flashFresh + 1
                 /\ UNCHANGED flashStale
            ELSE UNCHANGED <<label_fg, flashFresh, flashStale>>
    ELSE ClearAlert

\* Mutant of try_run_yolo: no except clause, the exception leaves update_gui
\* before its last statement.
try_run_yolo_uncaught(outcome) ==
    /\ tick' = [tick EXCEPT !.detInput = DetectorInputFile("t.jpg"),
                            !.labels = outcome.labels,
                            !.raised = outcome.raised]
    /\ IF outcome.raised
       THEN /\ UNCHANGED <<warning_text, flashStale, flashFresh, label_fg>>
            /\ guiPc' = "idle"
       ELSE /\ run_yolo(outcome.labels)
            /\ guiPc' = "resched"

\* The try / except of update_gui around run_yolo: the detector is called on
\* the file "t.jpg" and either raises or returns labels.
try_run_yolo(outcome) ==
    /\ tick' = [tick EXCEPT !.detInput = DetectorInputFile("t.jpg"),
                            !.labels = outcome.labels,
                            !.raised = outcome.raised]
    /\ IF outcome.raised
       THEN ClearAlert
       ELSE run_yolo(outcome.labels)
    /\ guiPc' = "resched"

\* Mutant of gate_open: the upper bound is exclusive.
gate_open_exclusive(distance) == min_distance <= distance /\ distance < max_distance

\* The gate of update_gui.
gate_open(distance) == min_distance <= distance /\ distance <= max_distance

\* Mutant of update_gui_gate: the gate and what follows it stay inside
\* "with self.lock".
update_gui_gate_locked ==
    /\ guiPc = "snapshot"
    /\ LET distance == latest_distance
       IN  IF gate_open(distance)
           THEN /\ tick' = [tick EXCEPT !.distance = distance, !.gate = "open"]
                /\ guiPc' = "detect"
                /\ UNCHANGED <<warning_text, label_fg, flashFresh, flashStale>>
           ELSE /\ tick' = [tick EXCEPT !.distance = distance, !.gate = "closed"]
                /\ ClearAlert
                /\ guiPc' = "resched"
    /\ UNCHANGED <<running, lock, camera, latest_frame, latest_distance,
                   min_distance, max_distance>>
    /\ UNCHANGED <<tickPending, restores>>
    /\ UNCHANGED <<lidarVars, lineVars, threadVars>>

\* update_gui from the copy of latest_distance to the gate: the distance is
\* copied, the lock is released, and the gate either lets the tick go on to
\* the detector or takes the out-of-range branch.  Between the release and
\* the gate the tick reads only its locals and fields that the main thread
\* alone writes.
update_gui_gate ==
    /\ guiPc = "snapshot"
    /\ lock' = "free"
    /\ LET distance == latest_distance
       IN  IF gate_open(distance)
           THEN /\ tick' = [tick EXCEPT !.distance = distance, !.gate = "open"]
                /\ guiPc' = "detect"
                /\ UNCHANGED <<warning_text, label_fg, flashFresh, flashStale>>
           ELSE /\ tick' = [tick EXCEPT !.distance = distance, !.gate = "closed"]
                /\ ClearAlert
                /\ guiPc' = "resched"
    /\ UNCHANGED <<running, camera, latest_frame, latest_distance,
                   min_distance, max_distance>>
    /\ UNCHANGED <<tickPending, restores>>
    /\ UNCHANGED <<lidarVars, lineVars, threadVars>>

\* The detector call of a tick whose gate is open returns or raises.
update_gui_detect(outcome) ==
    /\ guiPc = "detect"
    /\ try_run_yolo(outcome)
    /\ UNCHANGED <<running, lock, camera, latest_frame, latest_distance,
                   min_distance, max_distance>>
    /\ UNCHANGED <<tickPending, restores>>
    /\ UNCHANGED <<lidarVars, lineVars, threadVars>>

\* The last statement of update_gui: root.after(33, self.update_gui).
update_gui_reschedule ==
    /\ guiPc = "resched"
    /\ tickPending' = tickPending + 1
    /\ tick' = NoTick
    /\ guiPc' = "idle"
    /\ UNCHANGED <<flashFresh, flashStale, restores>>
    /\ UNCHANGED <<lidarVars, lineVars, appVars, threadVars>>

\* -------------------------------------------------------------- flash_warning
\* A root.after(500, flash_warning) callback fires; stale tells whether it
\* was scheduled under an alert cleared since.  Callbacks of equal delay fire
\* in the order they were scheduled, so the stale ones go first.
flash_warning(stale) ==
    /\ guiPc = "idle"
    /\ flashFresh + flashStale > 0
    /\ stale = (flashStale > 0)
    /\ IF running /\ warning_text # <<>>
       THEN /\ label_fg' = FlashColor(label_fg)
            /\ flashStale' = IF stale THEN flashStale - 1 ELSE flashStale
            /\ flashFresh' = IF stale THEN flashFresh + 1 ELSE flashFresh
       ELSE /\ flashStale' = IF stale THEN flashStale - 1 ELSE flashStale
            /\ flashFresh' = IF stale THEN flashFresh ELSE flashFresh - 1
            /\ UNCHANGED label_fg
    /\ UNCHANGED <<running, lock, camera, latest_frame, latest_distance,
                   min_distance, max_distance, warning_text>>
    /\ UNCHANGED <<guiPc, tick, tickPending, restores>>
    /\ UNCHANGED <<lidarVars, lineVars, threadVars>>

\* ----------------------------------------------------------------- on_closing
\* on_closing up to its time.sleep(0.1).
on_closing ==
    /\ guiPc = "idle"
    /\ running' = FALSE
    /\ guiPc' = "closing"
    /\ UNCHANGED <<lock, camera, latest_frame, latest_distance, min_distance,
                   max_distance, warning_text, label_fg>>
    /\ UNCHANGED <<tick, tickPending, flashFresh, flashStale, restores>>
    /\ UNCHANGED <<lidarVars, lineVars, threadVars>>

\* The rest of on_closing: camera.stop(), lidar.disconnect(), root.destroy();
\* destroying the root drops every pending callback.
on_closing_teardown ==
    /\ guiPc = "closing"
    /\ camera' = "stopped"
    /\ serial' = disconnect(serial).serial
    /\ tickPending' = 0
    /\ flashFresh' = 0
    /\ flashStale' = 0
    /\ restores' = <<>>
    /\ guiPc' = "destroyed"
    /\ UNCHANGED <<buffer, tick>>
    /\ UNCHANGED <<running, lock, latest_frame, latest_distance, min_distance,
                   max_distance, warning_text, label_fg>>
    /\ UNCHANGED <<lineVars, threadVars>>

\* ---------------------------------------------------------------- camera_loop
\* Mutant of camera_loop_check: "while True".
camera_loop_check_forever ==
    /\ camPc = "loop"
    /\ camPc' = "capture"
    /\ UNCHANGED <<camFrame, lidPc, lidDistances, lastDecoded, readFailed>>
    /\ UNCHANGED <<lidarVars, lineVars, appVars, guiVars>>

\* "while self.running".
camera_loop_check ==
    /\ camPc = "loop"
    /\ camPc' = IF running THEN "capture" ELSE "done"
    /\ UNCHANGED <<camFrame, lidPc, lidDistances, lastDecoded, readFailed>>
    /\ UNCHANGED <<lidarVars, lineVars, appVars, guiVars>>

\* Mutant of camera_loop_capture: the thread goes on to the assignment
\* without taking the lock.
camera_loop_capture_unlocked(f) ==
    /\ camPc = "capture"
    /\ camFrame' = f
    /\ camPc' = "locked"
    /\ UNCHANGED <<lidPc, lidDistances, lastDecoded, readFailed>>
    /\ UNCHANGED <<lidarVars, lineVars, appVars, guiVars>>

\* frame = self.camera.capture_array() returns the frame f and the thread
\* enters "with self.lock:".  Until the lock is free the thread rests here:
\* the frame is a local that nothing else reads.
camera_loop_capture(f) ==
    /\ camPc = "capture"
    /\ camFrame' = f
    /\ lock = "free"
    /\ lock' = "cam"
    /\ camPc' = "locked"
    /\ UNCHANGED <<running, camera, latest_frame, latest_distance, min_distance,
                   max_distance, warning_text, label_fg>>
    /\ UNCHANGED <<lidPc, lidDistances, lastDecoded, readFailed>>
    /\ UNCHANGED <<lidarVars, lineVars, guiVars>>

\* self.latest_frame = frame.copy(), and the with block is left.
camera_loop_publish ==
    /\ camPc = "locked"
    /\ latest_frame' = camFrame
    /\ lock' = "free"
    /\ camFrame' = NoFrame
    /\ camPc' = "loop"
    /\ UNCHANGED <<running, camera, latest_distance, min_distance, max_distance,
                   warning_text, label_fg>>
    /\ UNCHANGED <<lidPc, lidDistances, lastDecoded, readFailed>>
    /\ UNCHANGED <<lidarVars, lineVars, guiVars>>

\* ----------------------------------------------------------------- lidar_loop
\* "while self.running".
lidar_loop_check ==
    /\ lidPc = "loop"
    /\ lidPc' = IF running THEN "read" ELSE "done"
    /\ UNCHANGED <<camPc, camFrame, lidDistances, lastDecoded, readFailed>>
    /\ UNCHANGED <<lidarVars, lineVars, appVars, guiVars>>

\* self.lidar.read_available() is called: with the port not open it returns
\* [] at once, else it enters self.serial.read(...).
lidar_loop_call ==
    /\ lidPc = "read"
    /\ IF serial = "open"
       THEN /\ lidPc' = "reading"
            /\ UNCHANGED <<buffer, lidDistances, readFailed>>
       ELSE LET r == read_available(serial, buffer, ReadOk(<<>>))
            IN  /\ buffer' = r.buffer
                /\ lidDistances' = r.distances
                /\ readFailed' = TRUE
                /\ lidPc' = "sleep"
    /\ UNCHANGED <<serial, camPc, camFrame, lastDecoded>>
    /\ UNCHANGED <<lineVars, appVars, guiVars>>

\* Mutant of lidar_loop_read: an empty result ends the loop.
lidar_loop_read_gives_up(rd) ==
    /\ lidPc = "reading"
    /\ WellFramed(buffer, rd)
    /\ serial # "open" => (rd.err \/ rd.data = <<>>)
    /\ LET r == read_available("open", buffer, rd)
       IN  /\ buffer' = r.buffer
           /\ lidDistances' = r.distances
           /\ readFailed' = rd.err
           /\ IF r.distances # <<>>
              THEN /\ lastDecoded' = Last(r.distances)
                   /\ lock = "free"
                   /\ lock' = "lid"
                   /\ lidPc' = "locked"
              ELSE /\ lidPc' = "done"
                   /\ UNCHANGED <<lastDecoded, lock>>
    /\ UNCHANGED <<running, camera, latest_frame, latest_distance, min_distance,
                   max_distance, warning_text, label_fg>>
    /\ UNCHANGED <<serial, camPc, camFrame>>
    /\ UNCHANGED <<lineVars, guiVars>>

\* self.serial.read(...) ends as rd (a port closed under the read makes it
\* raise or return nothing) and read_available returns what the parser
\* decodes.  "if distances:" leads into "with self.lock:" or past it; until
\* the lock is free a thread with readings rests here, the batch being a
\* local that nothing else reads.
lidar_loop_read(rd) ==
    /\ lidPc = "reading"
    /\ WellFramed(buffer, rd)
    /\ serial # "open" => (rd.err \/ rd.data = <<>>)
    /\ LET r == read_available("open", buffer, rd)
       IN  /\ buffer' = r.buffer
           /\ lidDistances' = r.distances
           /\ readFailed' = rd.err
           /\ IF r.distances # <<>>
              THEN /\ lastDecoded' = Last(r.distances)
                   /\ lock = "free"
                   /\ lock' = "lid"
                   /\ lidPc' = "locked"
              ELSE /\ lidPc' = "sleep"
                   /\ UNCHANGED <<lastDecoded, lock>>
    /\ UNCHANGED <<running, camera, latest_frame, latest_distance, min_distance,
                   max_distance, warning_text, label_fg>>
    /\ UNCHANGED <<serial, camPc, camFrame>>
    /\ UNCHANGED <<lineVars, guiVars>>

\* Mutant of lidar_loop_publish: the first reading of the batch is stored.
lidar_loop_publish_first ==
    /\ lidPc = "locked"
    /\ latest_distance' = Head(lidDistances)
    /\ lock' = "free"
    /\ lidDistances' = <<>>
    /\ lidPc' = "sleep"
    /\ UNCHANGED <<running, camera, latest_frame, min_distance, max_distance,
                   warning_text, label_fg>>
    /\ UNCHANGED <<camPc, camFrame, lastDecoded, readFailed>>
    /\ UNCHANGED <<lidarVars, lineVars, guiVars>>

\* self.latest_distance = distances[-1], and the with block is left.
lidar_loop_publish ==
    /\ lidPc = "locked"
    /\ latest_distance' = Last(lidDistances)
    /\ lock' = "free"
    /\ lidDistances' = <<>>
    /\ lidPc' = "sleep"
    /\ UNCHANGED <<running, camera, latest_frame, min_distance, max_distance,
                   warning_text, label_fg>>
    /\ UNCHANGED <<camPc, camFrame, lastDecoded, readFailed>>
    /\ UNCHANGED <<lidarVars, lineVars, guiVars>>

\* time.sleep(0.01)
lidar_loop_sleep ==
    /\ lidPc = "sleep"
    /\ lidPc' = "loop"
    /\ readFailed' = FALSE
    /\ UNCHANGED <<camPc, camFrame, lidDistances, lastDecoded>>
    /\ UNCHANGED <<lidarVars, lineVars, appVars, guiVars>>

Next ==
    \/ start
    \/ \E a \in EntryTexts, b \in EntryTexts : apply_settings(a, b)
    \/ restore
    \/ update_gui_timer
    \/ update_gui_gate
    \/ \E o \in DetectorOutcomes : update_gui_detect(o)
    \/ update_gui_reschedule
    \/ \E stale \in BOOLEAN : flash_warning(stale)
    \/ on_closing
    \/ on_closing_teardown
    \/ camera_loop_check
    \/ \E f \in FrameIds : camera_loop_capture(f)
    \/ camera_loop_publish
    \/ lidar_loop_check
    \/ lidar_loop_call
    \/ \E rd \in PollOutcomes : lidar_loop_read(rd)
    \/ lidar_loop_publish
    \/ lidar_loop_sleep

Spec == Init /\ [][Next]_vars

\* The threads are scheduled again and again, every blocking call returns
\* (the serial read has a timeout of one second), and on_closing goes on
\* after its sleep.
CameraThread ==
    \/ camera_loop_check
    \/ \E f \in FrameIds : camera_loop_capture(f)
    \/ camera_loop_publish

LidarThread ==
    \/ lidar_loop_check
    \/ lidar_loop_call
    \/ \E rd \in PollOutcomes : lidar_loop_read(rd)
    \/ lidar_loop_publish
    \/ lidar_loop_sleep

SpecLive ==
    /\ Spec
    /\ WF_vars(CameraThread)
    /\ WF_vars(LidarThread)
    /\ WF_vars(on_closing_teardown)

\* ================================================================== claims
\* The main thread is inside an update_gui call.
TickActive == guiPc \in {"snapshot", "detect", "resched"}

\* The step of a tick that copies the distance, leaves the with block and
\* decides the gate.
GateStep == guiPc = "snapshot" /\ guiPc' # "snapshot"

DetectorInvoked(t) == t.detInput.kind # "none"

\* ------------------------------------------------------------------- C2
\* C2: on every tick the detector is invoked if and only if
\* min_distance <= distance <= max_distance holds for the snapshot distance
\* and the configured range, both bounds inclusive; otherwise the
\* out-of-range branch runs and the detector is not invoked.
C2_GateDecidesDetector ==
    /\ [][GateStep => tick'.distance = latest_distance]_vars
    /\ [](guiPc \in {"detect", "resched"} =>
             LET inRange == min_distance <= tick.distance
                                /\ tick.distance <= max_distance
             IN  /\ (tick.gate = "open") <=> inRange
                 /\ (tick.gate = "closed") <=> ~inRange
                 /\ guiPc = "detect" => inRange
                 /\ guiPc = "resched" => (DetectorInvoked(tick) <=> inRange))

C2_Witness ==
    /\ guiPc = "resched"
    /\ tick.gate = "open"
    /\ DetectorInvoked(tick)
    /\ tick.distance = max_distance
    /\ latest_distance = max_distance

\* ------------------------------------------------------------------- C3
\* C3: whenever the gate is open on a tick, the detector is invoked on the
\* frame of that tick's snapshot.
C3_DetectorOnSnapshotFrame ==
    (guiPc = "resched" /\ tick.gate = "open")
        => tick.detInput = DetectorInputFrame(tick.frame)

\* ------------------------------------------------------------------- C4
\* C4: in every reachable state 0 <= min_distance < max_distance, and no
\* step other than an apply_settings call changes the range.
C4_RangeInvariant ==
    /\ [](0 <= min_distance /\ min_distance < max_distance)
    /\ [][(min_distance' # min_distance \/ max_distance' # max_distance)
             => \E a \in EntryTexts, b \in EntryTexts : apply_settings(a, b)]_vars

C4_Witness ==
    /\ min_distance = 0
    /\ max_distance = 150
    /\ guiPc = "idle"
    /\ running

\* ------------------------------------------------------------------- C5
\* The inputs the claim calls rejected: a non-numeric text, a negative
\* value, or min >= max.
Rejected(minText, maxText) ==
    \/ ~IsIntText(minText)
    \/ ~IsIntText(maxText)
    \/ IntOf(minText) < 0
    \/ IntOf(maxText) < 0
    \/ IntOf(minText) >= IntOf(maxText)

\* What every apply_settings step that changes the state leaves alone (it
\* narrows the steps the formula below has to look at).
ApplyStepShape ==
    /\ guiPc = "idle"
    /\ <<min_distance, max_distance, label_fg, restores>>'
           # <<min_distance, max_distance, label_fg, restores>>
    /\ UNCHANGED <<guiPc, tick, tickPending, flashFresh, flashStale>>
    /\ UNCHANGED <<running, lock, camera, latest_frame, latest_distance,
                   warning_text>>
    /\ UNCHANGED <<lidarVars, lineVars, threadVars>>

\* C5: a rejected apply_settings call leaves min_distance and max_distance
\* both as they were, an accepted call sets both, and the gate of a tick
\* decides with the bounds configured when it runs.
C5_RejectedKeepsAcceptedSets ==
    /\ [][ApplyStepShape =>
             \A a \in EntryTexts, b \in EntryTexts :
                 apply_settings(a, b) =>
                     IF Rejected(a, b)
                     THEN UNCHANGED <<min_distance, max_distance>>
                     ELSE min_distance' = IntOf(a) /\ max_distance' = IntOf(b)]_vars
    /\ [][GateStep =>
             ((tick'.gate = "open")
                 <=> (min_distance' <= latest_distance
                        /\ latest_distance <= max_distance'))]_vars

\* An accepted (0, 150) is in force and a tick has opened the gate at 0 cm,
\* which the initial range 50..200 keeps closed.
C5_Witness ==
    /\ guiPc = "resched"
    /\ min_distance = 0
    /\ max_distance = 150
    /\ tick.gate = "open"
    /\ tick.distance = 0

\* ------------------------------------------------------------------- C6
\* C6: at the end of a tick whose gate was open and whose detector returned
\* a non-empty label list, the alert is active with a message containing
\* every returned label, the label carries a flash colour and a flash
\* callback is pending; at the end of a tick whose detector returned an
\* empty list the alert is cleared.
C6_AlertFollowsLabels ==
    (guiPc = "resched" /\ tick.gate = "open" /\ ~tick.raised) =>
        IF tick.labels # <<>>
        THEN /\ warning_text # <<>>
             /\ \A i \in 1..Len(tick.labels) : tick.labels[i] \in Range(warning_text)
             /\ label_fg \in {ALERT_COLOR, WARNING_COLOR}
             /\ flashFresh >= 1
        ELSE warning_text = <<>>

\* A tick has just raised an alert for two labels while the flash callback of
\* an earlier alert, cleared in between, is still pending.
C6_Witness ==
    /\ guiPc = "resched"
    /\ tick.gate = "open"
    /\ ~tick.raised
    /\ tick.labels = <<"person", "car">>
    /\ warning_text = WarningMessage(tick.labels)
    /\ flashFresh = 1
    /\ flashStale = 1

\* ------------------------------------------------------------------- C7
\* C7: at the end of every tick in which the gate was closed or the detector
\* returned no labels warning_text is empty; it is non-empty at the end of a
\* tick only if the gate was open and the label list non-empty.
C7_AlertOnlyWithLabels ==
    guiPc = "resched" =>
        /\ (tick.gate = "closed" \/ tick.labels = <<>>) => warning_text = <<>>
        /\ warning_text # <<>> => (tick.gate = "open" /\ tick.labels # <<>>)

\* A tick with the gate closed has ended with no alert, and a flash callback
\* of an alert raised by an earlier tick is still pending.
C7_Witness ==
    /\ guiPc = "resched"
    /\ tick.gate = "closed"
    /\ warning_text = <<>>
    /\ flashFresh = 0
    /\ flashStale >= 1

\* ------------------------------------------------------------------- C8
\* C8: if the detector call raises during a tick, warning_text is empty at
\* the end of that tick, the tick still reaches its last statement, and that
\* statement schedules the next tick while the pipeline is running.
C8_DetectorFailureContained ==
    /\ []((guiPc = "resched" /\ tick.raised) => (warning_text = <<>> /\ running))
    /\ [][(guiPc = "detect" /\ tick'.raised) => guiPc' = "resched"]_vars
    /\ [][(guiPc = "resched" /\ guiPc' # "resched")
             => (/\ guiPc' = "idle"
                 /\ tickPending' = tickPending + 1
                 /\ running')]_vars

\* A tick whose detector call raised has ended with no alert, and a flash
\* callback of an alert raised by an earlier tick is still pending.
C8_Witness ==
    /\ guiPc = "resched"
    /\ tick.raised
    /\ tick.gate = "open"
    /\ warning_text = <<>>
    /\ flashStale >= 1
    /\ running

\* ------------------------------------------------------------------- C9
\* C9: a flash callback scheduled under an alert that has been cleared since
\* neither recolours the label nor reschedules itself when it fires, even if
\* a new alert is active by then.
C9_StaleToggleIsNoOp ==
    [][flash_warning(TRUE) =>
          /\ label_fg' = label_fg
          /\ flashFresh' + flashStale' = flashFresh + flashStale - 1]_vars

\* ------------------------------------------------------------------ C10
\* C10: while the alert is active, at most one flash callback scheduled under
\* it is pending.
C10_OneFlashPending ==
    warning_text # <<>> => flashFresh <= 1

\* ------------------------------------------------------------------ C11
\* C11: the tick reads the frame and the distance inside one acquisition of
\* the lock (it holds the lock from the first read to the second); every
\* write of latest_frame or latest_distance is made by a producer that holds
\* the lock; so neither field changes between the two reads, and the frame
\* and the distance the tick goes on with are the values published when the
\* snapshot ends.
C11_SnapshotUnderLock ==
    /\ [](guiPc = "snapshot" => (lock = "gui" /\ tick.frame = latest_frame))
    /\ [][latest_frame' # latest_frame
             => (lock = "cam" /\ camPc = "locked")]_vars
    /\ [][latest_distance' # latest_distance
             => (lock = "lid" /\ lidPc = "locked")]_vars
    /\ [][guiPc = "snapshot"
             => UNCHANGED <<latest_frame, latest_distance>>]_vars
    /\ [][GateStep => (/\ tick'.frame = latest_frame
                       /\ tick'.distance = latest_distance
                       /\ lock' = "free")]_vars

\* The tick holds the lock between its two reads, with a frame and a
\* distance published, while the camera thread has a different frame ready
\* and the lidar thread is inside a read.
C11_Witness ==
    /\ guiPc = "snapshot"
    /\ tick.frame = 1
    /\ latest_distance = 150
    /\ camPc = "capture"
    /\ lidPc = "reading"

\* ------------------------------------------------------------------ C12
\* A read_available call of lidar_loop that ends in the except clause.
FailedReadStep == lidPc = "reading" /\ lidPc' # "reading" /\ readFailed'

\* A read_available call of lidar_loop that finds the port not open.
NotOpenStep == lidPc = "read" /\ lidPc' # "read" /\ serial # "open"

\* C12: a read_available call whose serial read raises, or that finds the
\* port not open, returns the empty list and leaves the parser buffer and
\* latest_distance as they were; lidar_loop goes on to its sleep and from
\* there to the loop test, which ends the loop only when running is false,
\* and none of these steps can be blocked.
C12_ReadFailureTolerated ==
    /\ [][(FailedReadStep \/ NotOpenStep)
             => (/\ lidDistances' = <<>>
                 /\ buffer' = buffer
                 /\ latest_distance' = latest_distance
                 /\ lidPc' = "sleep")]_vars
    /\ [][(lidPc = "sleep" /\ lidPc' # "sleep") => lidPc' = "loop"]_vars
    /\ [][(lidPc = "loop" /\ lidPc' # "loop")
             => lidPc' = (IF running THEN "read" ELSE "done")]_vars
    /\ [](lidPc = "sleep" => ENABLED lidar_loop_sleep)
    /\ [](lidPc = "loop" => ENABLED lidar_loop_check)
    /\ [](lidPc = "read" => ENABLED lidar_loop_call)

\* A serial read has just failed while the first half of a packet was
\* buffered and the pipeline is running.
C12_Witness ==
    /\ lidPc = "sleep"
    /\ readFailed
    /\ running
    /\ serial = "open"
    /\ buffer = PacketHead(250)
    /\ latest_distance = 150

\* ------------------------------------------------------------------ C16
\* C16: the update_gui call in progress and the pending update_gui callbacks
\* are never more than one together, an update_gui call goes past its first
\* test only while running is set, and the threads exist only once start()
\* has set running.
C16_OneTickAtATime ==
    /\ tickPending + (IF TickActive THEN 1 ELSE 0) <= 1
    /\ TickActive => running
    /\ (camPc = "off") <=> (lidPc = "off")
    /\ (camPc = "off") => (~running /\ tickPending = 0)

\* A tick that ran the detector and raised an alert has ended and its
\* successor is the one pending callback.
C16_Witness ==
    /\ guiPc = "idle"
    /\ running
    /\ tickPending = 1
    /\ warning_text # <<>>
    /\ flashFresh = 2

\* ------------------------------------------------------------------ C17
\* C17: the lock is held only inside the three with blocks: not by the
\* camera thread inside capture_array(), not by the lidar thread inside the
\* serial read or its sleep, not by the main thread inside the detector call
\* or the sleep of on_closing.
C17_NoLockAcrossBlockingCall ==
    /\ (lock = "cam") <=> (camPc = "locked")
    /\ (lock = "lid") <=> (lidPc = "locked")
    /\ (lock = "gui") <=> (guiPc = "snapshot")
    /\ camPc = "capture" => lock # "cam"
    /\ lidPc \in {"reading", "sleep"} => lock # "lid"
    /\ guiPc \in {"detect", "closing"} => lock # "gui"

\* While the detector call of a tick is in progress both producers have
\* published values newer than the tick's snapshot and the camera thread
\* holds the lock again.
C17_Witness ==
    /\ guiPc = "detect"
    /\ latest_frame # tick.frame
    /\ latest_distance # tick.distance
    /\ lock = "cam"

\* ------------------------------------------------------------------ C18
\* Nothing is left to run: both loops are over (or were never started), no
\* update_gui call is in progress and no callback is pending.
Stopped ==
    /\ camPc \in {"off", "done"}
    /\ lidPc \in {"off", "done"}
    /\ ~TickActive
    /\ tickPending = 0
    /\ flashFresh + flashStale = 0

C19_NoAccessAfterRelease ==
    /\ camPc = "capture" => camera # "stopped"
    /\ lidPc = "reading" => serial # "closed"

\* ------------------------------------------------------------------ C20
\* C20 (as amended): a batch of readings is published by storing its last
\* reading, a poll without readings leaves latest_distance alone, a captured
\* frame replaces the stored one whatever it was; and whenever the lidar
\* thread is not between decoding a batch and storing it, latest_distance is
\* the last reading decoded so far (0 before any).
C20_LatestWins ==
    /\ [](lidPc # "locked" => latest_distance = lastDecoded)
    /\ [][(lidPc = "locked" /\ lidPc' # "locked")
             => latest_distance' = Last(lidDistances)]_vars
    /\ [][(lidPc \in {"read", "reading"} /\ lidPc' = "sleep")
             => latest_distance' = latest_distance]_vars
    /\ [][(camPc = "locked" /\ camPc' # "locked")
             => latest_frame' = camFrame]_vars

\* The batch 250, 150 has been published as 150, and frame 2 has replaced
\* frame 1 or the initial None.
C20_Witness ==
    /\ lidPc = "sleep"
    /\ lastDecoded = 150
    /\ latest_distance = 150
    /\ latest_frame = 2
    /\ camPc = "capture"

\* C20 (as stated): in every state latest_distance is the last reading
\* decoded so far.
C20_AlwaysLastDecoded ==
    latest_distance = lastDecoded

\* ------------------------------------------------------------------ C22
\* C22: a tick that invokes the detector has a frame in its snapshot, and
\* no alert is raised while no frame has been published.
C22_DetectorNeedsFrame ==
    /\ DetectorInvoked(tick) => tick.frame # NoFrame
    /\ latest_frame = NoFrame => warning_text = <<>>

=============================================================================
